---- MODULE Spec2Model ----
(***************************************************************************)
(* Model of the football-analytics core: the model-version registry and    *)
(* its database sessions (ml/model_versioning.py), the training entry      *)
(* points (ml/model.py), the preprocessing functions                       *)
(* (preprocessing/data_processing.py), the feature generator               *)
(* (data_pipeline/processors/feature_generator.py: form, head-to-head,     *)
(* odds, weather and schedule features) and the data refresh               *)
(* (data_pipeline/processors/integrator.py).                               *)
(***************************************************************************)
EXTENDS Integers, Sequences, FiniteSets, TLC

VARIABLES now, nTicks, files, rows, nCalls, lastOp, nRuns, runNames, lastRun,
          matches, features, prepared, dfColumns, obj, lastCall, aug, ingest,
          odds, h2h, sched, weather, sess, refresh

regVars == <<now, nTicks, files, rows, nCalls, lastOp, nRuns, runNames, lastRun>>

dataVars == <<matches, features, prepared, dfColumns>>

unitVars == <<obj, lastCall, aug, ingest>>

featVars == <<odds, h2h, sched, weather>>

stepVars == <<sess, refresh>>

vars == <<regVars, dataVars, unitVars, featVars, stepVars>>

(***************************************************************************)
(* Bounds of the exploration.                                              *)
(***************************************************************************)
MaxRegs == 2        \* register_model calls made directly by a caller
MaxTicks == 1       \* observed advances of the wall clock
MaxRuns == 2        \* training runs
MaxSmall == 1       \* small tables have 0..MaxSmall valid rows
MaxExtra == 0       \* large tables have up to MinTrainRows + MaxExtra valid rows
MaxInvalid == 1     \* rows with a missing predictor or target
MaxDate == 4        \* match days; a team plays at most once a day
MaxOther == 1       \* match days of the second team
MaxBatch == 2       \* rows of a matrix handed to predict / predict_proba
MaxTrainSets == 2   \* distinct non-empty training sets handed to train
MaxAugRows == 2     \* rows of a table handed to augment_data directly
MaxSynth == 1       \* n_samples of a direct augment_data call
MaxPrepCalls == 2   \* prepare_model_data calls on one table object
MaxIngests == 1     \* load_data / upload_data calls
MaxCsvRows == 1     \* rows of an ingested file

MaxTinyOdds == 2

MaxQuarterOdds == 10

MaxH2HRows == 2

MaxSchedRows == 4

MaxWeatherRows == 4

MaxSessionCalls == 2

MaxRefreshes == 3

MaxRefreshRows == 3

SecondsPerMinute == 60

(***************************************************************************)
(* Version names.  A name is the pair <<text, stamp>>: f"{prefix}{stamp}"  *)
(* for generated names, <<text, NoStamp>> for a name without a timestamp.  *)
(***************************************************************************)
NoStamp == -1
NoName == <<"", NoStamp>>
NoType == ""

ModelTypes == {"randomforest", "ensemble"}
ExplicitNames == {<<"v1", NoStamp>>}

\* datetime.now().strftime("%Y%m%d_%H%M%S"): the clock truncated to seconds
StampSeconds(t) == t

\* datetime.now().strftime("%Y%m%d_%H%M"): the clock truncated to minutes
StampMinutes(t) == t \div SecondsPerMinute

(***************************************************************************)
(* Model objects: FootballPredictionModel ("rf") and EnsemblePredictor     *)
(* ("ens").  rf_fit / xgb_fit are the fitted state of the base learners,   *)
(* 0 when the learner has no classes_ attribute (never fitted).            *)
(***************************************************************************)
FootballPredictionModel(version, fit) ==
    [cls |-> "rf", model_version |-> version, rf_fit |-> fit, xgb_fit |-> 0]

EnsemblePredictor(version, rfFit, xgbFit) ==
    [cls |-> "ens", model_version |-> version, rf_fit |-> rfFit, xgb_fit |-> xgbFit]

NoModel == [cls |-> "None", model_version |-> NoName, rf_fit |-> 0, xgb_fit |-> 0]

Unversioned == <<"unversioned", NoStamp>>

\* fitted state of a base learner after fit(X, y)
FittedState == 1

RegModels ==
    {FootballPredictionModel(Unversioned, 0),
     FootballPredictionModel(Unversioned, FittedState),
     EnsemblePredictor(Unversioned, FittedState, FittedState)}

InputRows == 0..1   \* the rows of a fixed input matrix

Half == 500         \* probabilities are in thousandths

\* predict_proba(X)[:, 1] of a fitted base learner on row x
BaseProba(fit, x) == ((((fit * 37) + (x * 101)) % 9) + 1) * 100

IsFitted(m) ==
    IF m.cls = "rf" THEN m.rf_fit # 0
    ELSE m.rf_fit # 0 /\ m.xgb_fit # 0

RfWeight == 50
XgbWeight == 50

\* predict_proba: the win probability of row x
PredictProba(m, x) ==
    IF ~IsFitted(m) THEN Half
    ELSE IF m.cls = "rf" THEN BaseProba(m.rf_fit, x)
    ELSE (RfWeight * BaseProba(m.rf_fit, x) + XgbWeight * BaseProba(m.xgb_fit + 1, x)) \div 100

(***************************************************************************)
(* Artifact files: joblib.dump writes the object as a stream of fields,    *)
(* joblib.load rebuilds the object from the stream.                        *)
(***************************************************************************)
\* a dump that writes a freshly constructed object instead of the fitted one
Dump_Unfitted(m) == <<m.cls, m.model_version, 0, 0>>

Dump(m) == <<m.cls, m.model_version, m.rf_fit, m.xgb_fit>>

Load(bytes) ==
    [cls |-> bytes[1], model_version |-> bytes[2], rf_fit |-> bytes[3], xgb_fit |-> bytes[4]]

\* os.path.join(self.model_dir, f"{version_name}.pkl")
ModelPath(version_name) == version_name

FileExists(path) == path \in DOMAIN files

(***************************************************************************)
(* The model_versions table.                                               *)
(***************************************************************************)
ModelVersion(version_name, model_type, created, description, metrics) ==
    [version_name |-> version_name, model_type |-> model_type,
     creation_date |-> created, description |-> description, metrics |-> metrics]

\* a table created without the unique index
UniqueViolation_NoIndex(table, version_name) == FALSE

\* the unique index ix_model_versions_version_name
UniqueViolation(table, version_name) ==
    \E i \in DOMAIN table : table[i].version_name = version_name

HasRow(version_name) == \E i \in DOMAIN rows : rows[i].version_name = version_name

\* f"{model_type}_{timestamp}"
GeneratedName(model_type, t) == <<model_type, StampSeconds(t)>>

RegisteredName(model_type, version_name, t) ==
    IF version_name = NoName THEN GeneratedName(model_type, t) ELSE version_name

NoOp ==
    [op |-> "none", model |-> NoModel, model_type |-> NoType, arg |-> NoName,
     name |-> NoName, committed |-> FALSE, rolledBack |-> FALSE,
     raised |-> FALSE, value |-> NoName, loaded |-> NoModel,
     prevRegistered |-> FALSE, prevModel |-> NoModel, prevArg |-> NoName]

\* what register_model returns after db.commit() succeeded
SuccessResult(name) == name

\* what register_model returns from its except branch
FailureResult(name) == name

\* register_model on the store (fs, rs) at time t: the store it leaves and
\* the record of the call
\* (dbUp: the database answers; db.add / db.commit raise otherwise)
\* a registration that inserts the row without having stored the artifact
RegisterResult_RowWithoutFile(fs, rs, t, model, model_type, version_name, description, metrics, dbUp) ==
    LET name == RegisteredName(model_type, version_name, t)
        ok == dbUp /\ ~UniqueViolation(rs, name)
        row == ModelVersion(name, model_type, t, description, metrics)
    IN  [files |-> fs,
         rows |-> IF ok THEN Append(rs, row) ELSE rs,
         op |-> [op |-> "register", model |-> model, model_type |-> model_type,
                 arg |-> version_name, name |-> name, committed |-> ok,
                 rolledBack |-> ~ok, raised |-> FALSE,
                 value |-> IF ok THEN SuccessResult(name) ELSE FailureResult(name),
                 loaded |-> NoModel, prevRegistered |-> FALSE,
                 prevModel |-> NoModel, prevArg |-> NoName]]

RegisterResult(fs, rs, t, model, model_type, version_name, description, metrics, dbUp) ==
    LET name == RegisteredName(model_type, version_name, t)
        ok == dbUp /\ ~UniqueViolation(rs, name)
        row == ModelVersion(name, model_type, t, description, metrics)
    IN  [files |-> (ModelPath(name) :> Dump(model)) @@ fs,
         rows |-> IF ok THEN Append(rs, row) ELSE rs,
         op |-> [op |-> "register", model |-> model, model_type |-> model_type,
                 arg |-> version_name, name |-> name, committed |-> ok,
                 rolledBack |-> ~ok, raised |-> FALSE,
                 value |-> IF ok THEN SuccessResult(name) ELSE FailureResult(name),
                 loaded |-> NoModel, prevRegistered |-> FALSE,
                 prevModel |-> NoModel, prevArg |-> NoName]]

\* the model_type its callers pass with a model: 'randomforest' with a
\* FootballPredictionModel, 'ensemble' with an EnsemblePredictor
TypeOfModel(model) == IF model.cls = "rf" THEN "randomforest" ELSE "ensemble"

RegisterModel ==
    /\ nCalls < MaxRegs
    /\ \E model \in RegModels, version_name \in ExplicitNames \cup {NoName},
          dbUp \in BOOLEAN :
       \E r \in {RegisterResult(files, rows, now, model, TypeOfModel(model),
                                 version_name, "direct", FALSE, dbUp)} :
              /\ files' = r.files
              /\ rows' = r.rows
              /\ lastOp' = r.op
    /\ nCalls' = nCalls + 1
    /\ UNCHANGED <<now, nTicks, nRuns, runNames, lastRun, dataVars, unitVars, featVars, stepVars>>

\* a query that orders the rows of every type
LatestVersions_AnyType(model_type) ==
    {rows[i].version_name : i \in
        {j \in DOMAIN rows : \A k \in DOMAIN rows :
                                 rows[k].creation_date <= rows[j].creation_date}}

\* the query of get_latest_version: the rows of the type with the greatest
\* creation_date (the order among equal dates is the database's choice)
LatestVersions(model_type) ==
    LET ofType == {i \in DOMAIN rows : rows[i].model_type = model_type}
    IN  {rows[i].version_name : i \in
            {j \in ofType : \A k \in ofType : rows[k].creation_date <= rows[j].creation_date}}

\* get_latest_version: what a call can give, None being NoName; the query
\* raises when the database does not answer (try / finally, no except)
LatestOutcomes(model_type, dbUp) ==
    IF ~dbUp THEN {[raised |-> TRUE, value |-> NoName]}
    ELSE IF LatestVersions(model_type) = {} THEN {[raised |-> FALSE, value |-> NoName]}
    ELSE {[raised |-> FALSE, value |-> n] : n \in LatestVersions(model_type)}

GetLatestVersion ==
    /\ \E model_type \in ModelTypes, dbUp \in BOOLEAN :
          \E o \in LatestOutcomes(model_type, dbUp) :
             lastOp' = [NoOp EXCEPT !.op = "latest", !.model_type = model_type,
                                    !.raised = o.raised, !.value = o.value]
    /\ UNCHANGED <<now, nTicks, files, rows, nCalls, nRuns, runNames, lastRun, dataVars, unitVars, featVars, stepVars>>

\* load_model once the name is resolved (raised: get_latest_version raised)
LoadEffect(version_arg, model_type, resolved, raised) ==
    LET path == ModelPath(resolved)
        found == ~raised /\ resolved # NoName /\ FileExists(path)
    IN  /\ lastOp' = [op |-> "load", model |-> NoModel, model_type |-> model_type,
                      arg |-> version_arg, name |-> resolved, committed |-> FALSE,
                      rolledBack |-> FALSE, raised |-> raised, value |-> resolved,
                      loaded |-> IF found THEN Load(files[path]) ELSE NoModel,
                      prevRegistered |-> lastOp.op = "register",
                      prevModel |-> IF lastOp.op = "register" THEN lastOp.model ELSE NoModel,
                      prevArg |-> IF lastOp.op = "register" THEN lastOp.arg ELSE NoName]

LoadModel ==
    /\ \E version_name \in ExplicitNames \cup {NoName} \cup DOMAIN files,
          model_type \in ModelTypes \cup {NoType} :
          IF version_name = NoName /\ model_type # NoType
          THEN \E dbUp \in BOOLEAN : \E o \in LatestOutcomes(model_type, dbUp) :
                  LoadEffect(version_name, model_type, o.value, o.raised)
          ELSE LoadEffect(version_name, model_type, version_name, FALSE)
    /\ UNCHANGED <<now, nTicks, files, rows, nCalls, nRuns, runNames, lastRun, dataVars, unitVars, featVars, stepVars>>

\* the wall clock moves on by a second, or to the start of the next minute
TickSecond ==
    /\ nTicks < MaxTicks
    /\ now' = now + 1
    /\ nTicks' = nTicks + 1
    /\ UNCHANGED <<files, rows, nCalls, lastOp, nRuns, runNames, lastRun, dataVars, unitVars, featVars, stepVars>>

TickMinute ==
    /\ nTicks < MaxTicks
    /\ now' = ((now \div SecondsPerMinute) + 1) * SecondsPerMinute
    /\ nTicks' = nTicks + 1
    /\ UNCHANGED <<files, rows, nCalls, lastOp, nRuns, runNames, lastRun, dataVars, unitVars, featVars, stepVars>>

(***************************************************************************)
(* train_prediction_model ("rf") and train_ensemble_model ("ens").         *)
(* A table is known by its number of rows that survive dropna (valid) and  *)
(* of rows that do not (invalid); NoData is data = None.                   *)
(***************************************************************************)
MinTrainRows == 100      \* if len(valid_data) < 100
AugmentSamples == 50     \* augment_data(valid_data, n_samples=50)
TestSizePercent == 20    \* train_test_split(..., test_size=0.2)

NoData == [none |-> TRUE, valid |-> 0, invalid |-> 0]

Table(valid, invalid) == [none |-> FALSE, valid |-> valid, invalid |-> invalid]

ValidCounts == (0..MaxSmall) \cup ((MinTrainRows - 1)..(MinTrainRows + MaxExtra))

\* rows that dropna removes matter only when no row survives
TrainInputs ==
    {NoData} \cup {Table(v, 0) : v \in ValidCounts}
             \cup {Table(0, i) : i \in 1..MaxInvalid}

\* where the try block raises: nowhere, while the predictors and the target
\* are assembled, in model.train, or while the metrics are computed
ExcStages == {"none", "assemble", "fit", "evaluate"}

DefaultVersion(fn, t) ==
    IF fn = "rf" THEN <<"default_rf_", StampMinutes(t)>>
    ELSE <<"ensemble_v", StampMinutes(t)>>

TrainedVersion(fn, t) ==
    IF fn = "rf" THEN <<"rf_v", StampMinutes(t)>>
    ELSE <<"ensemble_v", StampMinutes(t)>>

\* an except branch that reuses the version of the trained model
FallbackVersion_Reused(fn, t) ==
    IF fn = "rf" THEN <<"rf_v", StampMinutes(t)>>
    ELSE <<"ensemble_v", StampMinutes(t)>>

FallbackVersion(fn, t) ==
    IF fn = "rf" THEN <<"fallback_rf_", StampMinutes(t)>>
    ELSE <<"fallback_ensemble_", StampMinutes(t)>>

IsFallbackLabel(version) == version[1] \in {"fallback_rf_", "fallback_ensemble_"}

TypeOf(fn) == IF fn = "rf" THEN "randomforest" ELSE "ensemble"

Untrained(fn, version) ==
    IF fn = "rf" THEN FootballPredictionModel(version, 0)
    ELSE EnsemblePredictor(version, 0, 0)

Fitted(fn, version, fit) ==
    IF fn = "rf" THEN FootballPredictionModel(version, fit)
    ELSE EnsemblePredictor(version, fit, fit)

\* rows that augment_data appends to a table of n rows (sampling from an
\* empty table raises ValueError)
AugmentedRows(n) == IF n < MinTrainRows THEN AugmentSamples ELSE 0

AugmentRaises(n) == n < MinTrainRows /\ n = 0

\* sklearn: n_test = ceil(test_size * n_samples)
TestRows(n) == ((n * TestSizePercent) + 99) \div 100

\* a call that registers the bare estimator instead of the versioned wrapper
RegisterCall_BareEstimator(model, model_type, version_name, description, metrics) ==
    [model |-> [model EXCEPT !.model_version = Unversioned], model_type |-> model_type,
     version_name |-> version_name, description |-> description, metrics |-> metrics]

RegisterCall(model, model_type, version_name, description, metrics) ==
    [model |-> model, model_type |-> model_type, version_name |-> version_name,
     description |-> description, metrics |-> metrics]

\* the register_model calls of one run and the model it returns
TrainOutcome(fn, data, excStage, fit, t) ==
    IF data.none \/ data.valid + data.invalid = 0
    THEN LET model == Untrained(fn, DefaultVersion(fn, t))
         IN  [path |-> "no_data", returned |-> model, raised |-> FALSE,
              calls |-> <<RegisterCall(model, TypeOf(fn), model.model_version,
                                       "default: no training data", FALSE)>>]
    ELSE IF excStage # "none" \/ AugmentRaises(data.valid)
    THEN LET model == Untrained(fn, FallbackVersion(fn, t))
         IN  [path |-> "fallback", returned |-> model, raised |-> FALSE,
              calls |-> <<RegisterCall(model, TypeOf(fn), model.model_version,
                                       "fallback after error", FALSE)>>]
    ELSE IF data.valid + AugmentedRows(data.valid) = 0
    THEN LET model == Untrained(fn, DefaultVersion(fn, t))
         IN  [path |-> "no_valid", returned |-> model, raised |-> FALSE,
              calls |-> <<RegisterCall(model, TypeOf(fn), model.model_version,
                                       "default: no valid data", FALSE)>>]
    ELSE LET model == Fitted(fn, TrainedVersion(fn, t), fit)
         IN  [path |-> "trained", returned |-> model, raised |-> FALSE,
              calls |-> <<RegisterCall(model, TypeOf(fn), model.model_version,
                                       "trained", TRUE)>>]

RECURSIVE ApplyCalls(_, _, _, _, _, _)
ApplyCalls(calls, fs, rs, op, t, dbUp) ==
    IF calls = <<>> THEN [files |-> fs, rows |-> rs, op |-> op]
    ELSE LET c == Head(calls)
             r == RegisterResult(fs, rs, t, c.model, c.model_type, c.version_name,
                                 c.description, c.metrics, dbUp)
         IN  ApplyCalls(Tail(calls), r.files, r.rows, r.op, t, dbUp)

\* the stages a run on data goes through: none of the try block without data
StagesOf(data) ==
    IF data.none \/ data.valid + data.invalid = 0 THEN {"none"} ELSE ExcStages

NoCount == -1

\* len(valid_data) after data.dropna(...): NoCount when the run returns or
\* raises before the filter
ValidAfterFilter(data, excStage) ==
    IF data.none \/ data.valid + data.invalid = 0 \/ excStage = "assemble" THEN NoCount
    ELSE data.valid

NoRun ==
    [fn |-> "none", path |-> "none", raised |-> FALSE, returned |-> NoModel,
     calls |-> <<>>, nValid |-> NoCount,
     nOrig |-> 0, nSyn |-> 0, testOrig |-> 0, testSyn |-> 0]

\* one run of fn on data: the registry and the record of the run it leaves
\* (the shuffle of train_test_split puts between lo and hi synthetic rows
\* among the test rows; the two extremes are followed)
TrainEffect(fn, data) ==
    \E dbUp \in BOOLEAN :
       \E excStage \in StagesOf(data) :
       \E out \in {TrainOutcome(fn, data, excStage, FittedState, now)} :
       \E r \in {ApplyCalls(out.calls, files, rows, lastOp, now, dbUp)} :
          LET nOrig == data.valid
              nSyn == AugmentedRows(data.valid)
              nTest == TestRows(nOrig + nSyn)
              lo == IF nTest > nOrig THEN nTest - nOrig ELSE 0
              hi == IF nSyn < nTest THEN nSyn ELSE nTest
          IN  /\ files' = r.files
              /\ rows' = r.rows
              /\ lastOp' = r.op
              /\ runNames' = runNames \o [i \in 1..Len(out.calls) |-> r.op.name]
              /\ IF out.path = "trained"
                 THEN \E tSyn \in {lo, hi} :
                         lastRun' = [fn |-> fn, path |-> out.path, raised |-> out.raised,
                                     returned |-> out.returned, calls |-> out.calls,
                                     nValid |-> ValidAfterFilter(data, excStage),
                                     nOrig |-> nOrig, nSyn |-> nSyn,
                                     testOrig |-> nTest - tSyn, testSyn |-> tSyn]
                 ELSE lastRun' = [fn |-> fn, path |-> out.path, raised |-> out.raised,
                                  returned |-> out.returned, calls |-> out.calls,
                                  nValid |-> ValidAfterFilter(data, excStage),
                                  nOrig |-> 0, nSyn |-> 0, testOrig |-> 0, testSyn |-> 0]

Train(fn) ==
    /\ nRuns < MaxRuns
    /\ \E data \in TrainInputs : TrainEffect(fn, data)
    /\ nRuns' = nRuns + 1
    /\ UNCHANGED <<now, nTicks, nCalls, dataVars, unitVars, featVars, stepVars>>

TrainPredictionModel == Train("rf")

TrainEnsembleModel == Train("ens")

(***************************************************************************)
(* Match tables.  A record is one team's view of one fixture; goals_for /  *)
(* goals_against are the columns gf / ga of preprocessing.  A table is the *)
(* set of its records: both pipelines sort by team and date first, and a   *)
(* team has one record per date.                                           *)
(***************************************************************************)
Teams == {"A", "B"}

Outcomes ==
    {[result |-> "W", goals_for |-> 2, goals_against |-> 0],
     [result |-> "D", goals_for |-> 1, goals_against |-> 1],
     [result |-> "L", goals_for |-> 0, goals_against |-> 1]}

MatchRecord(team, date, o) ==
    [team |-> team, date |-> date, result |-> o.result,
     goals_for |-> o.goals_for, goals_against |-> o.goals_against]

TeamRows(T, team) == {r \in T : r.team = team}

\* sort_values('date') of one team's records
RECURSIVE SortByDate(_)
SortByDate(S) ==
    IF S = {} THEN <<>>
    ELSE LET m == CHOOSE r \in S : \A q \in S : r.date <= q.date
         IN  <<m>> \o SortByDate(S \ {m})

\* position of record r in its team's date order
IndexOf(T, r) == Cardinality({q \in TeamRows(T, r.team) : q.date <= r.date})

RECURSIVE SumRange(_, _, _)
SumRange(x, lo, hi) == IF lo > hi THEN 0 ELSE x[hi] + SumRange(x, lo, hi - 1)

Max(a, b) == IF a >= b THEN a ELSE b

\* rationals are pairs <<numerator, denominator>>; NaN has denominator 0
NaN == <<0, 0>>

IsNaN(q) == q[2] = 0

RatEq(p, q) == IF IsNaN(p) \/ IsNaN(q) THEN IsNaN(p) /\ IsNaN(q) ELSE p[1] * q[2] = q[1] * p[2]

(***************************************************************************)
(* FeatureGenerator: the binary flags and _add_team_form_features.         *)
(***************************************************************************)
window_sizes == {3, 5, 10}

Points(r) == IF r.result = "W" THEN 3 ELSE IF r.result = "D" THEN 1 ELSE 0

IsWin(r) == IF r.result = "W" THEN 1 ELSE 0

CleanSheet(r) == IF r.goals_against = 0 THEN 1 ELSE 0

FailedToScore(r) == IF r.goals_for = 0 THEN 1 ELSE 0

\* x.rolling(window, min_periods=1).sum() at position i
RollingSum(x, i, window) == SumRange(x, Max(1, i - window + 1), i)

\* number of observations of x.rolling(window, min_periods=1) at position i
RollingCount(i, window) == i - Max(1, i - window + 1) + 1

\* the form columns of record r of table T
TeamFormFeatures(T, r) ==
    LET g == SortByDate(TeamRows(T, r.team))
        i == IndexOf(T, r)
        col(f(_)) == [k \in DOMAIN g |-> f(g[k])]
        gf(q) == q.goals_for
        ga(q) == q.goals_against
    IN  [points_last |-> [w \in window_sizes |-> RollingSum(col(Points), i, w)],
         goals_for_last |-> [w \in window_sizes |-> RollingSum(col(gf), i, w)],
         goals_against_last |-> [w \in window_sizes |-> RollingSum(col(ga), i, w)],
         win_rate_last |-> [w \in window_sizes |->
                               <<RollingSum(col(IsWin), i, w), RollingCount(i, w)>>],
         goal_diff_last |-> [w \in window_sizes |->
                               RollingSum(col(gf), i, w) - RollingSum(col(ga), i, w)],
         clean_sheets_last |-> [w \in window_sizes |-> RollingSum(col(CleanSheet), i, w)],
         failed_to_score_last |-> [w \in window_sizes |->
                                     RollingSum(col(FailedToScore), i, w)]]

NotComputed == [done |-> FALSE, rows |-> <<>>]

\* the columns of a table as load_data returns it
RawColumns == {"date", "team", "opponent", "venue", "result", "gf", "ga", "sh", "sot", "time"}

NotPrepared ==
    [done |-> FALSE, calls |-> 0, cols |-> {}, rows |-> <<>>,
     prevCols |-> {}, prevRows |-> <<>>]

AddRecord ==
    /\ \E team \in Teams, date \in 1..MaxDate, o \in Outcomes :
          /\ \A r \in matches : ~(r.team = team /\ r.date = date)
          /\ team = "B" => date <= MaxOther
          /\ matches' = matches \cup {MatchRecord(team, date, o)}
    /\ features' = NotComputed
    /\ prepared' = NotPrepared
    /\ dfColumns' = RawColumns
    /\ UNCHANGED <<regVars, unitVars, featVars, stepVars>>

AddTeamFormFeatures ==
    /\ matches # {}
    /\ ~features.done
    /\ features' = [done |-> TRUE, rows |-> [r \in matches |-> TeamFormFeatures(matches, r)]]
    /\ UNCHANGED <<regVars, unitVars, matches, prepared, dfColumns, featVars, stepVars>>

(***************************************************************************)
(* preprocessing: calculate_rolling_averages and prepare_model_data.       *)
(***************************************************************************)
RollingWindow == 3      \* group[available_cols].rolling(3, closed='left')

\* rolling(3, closed='left').mean() at position i: the three rows before i
RollingLeftMean(x, i) ==
    IF i - 1 >= RollingWindow THEN <<SumRange(x, i - RollingWindow, i - 1), RollingWindow>>
    ELSE NaN

\* the <base>_rolling column of one team's sorted records, NaN filled
FilledRolling(x) ==
    LET n == Len(x)
        raw == [i \in 1..n |-> RollingLeftMean(x, i)]
        known == {i \in 1..n : ~IsNaN(raw[i])}
        rawSums == [i \in 1..n |-> raw[i][1]]
        fill == IF known = {}
                THEN <<SumRange(x, 1, n), n>>
                ELSE <<SumRange(rawSums, 1, n), RollingWindow * Cardinality(known)>>
    IN  [i \in 1..n |-> IF IsNaN(raw[i]) THEN fill ELSE raw[i]]

\* calculate_rolling_averages: the rolling columns of record r of table T
RollingAverages(T, r) ==
    LET g == SortByDate(TeamRows(T, r.team))
        i == IndexOf(T, r)
    IN  [gf_rolling |-> FilledRolling([k \in DOMAIN g |-> g[k].goals_for])[i],
         ga_rolling |-> FilledRolling([k \in DOMAIN g |-> g[k].goals_against])[i]]

\* the columns encode_categorical_features assigns on the table it is given
EncodedColumns == {"team_code", "venue_code", "opp_code", "hour", "day_code", "target"}

all_possible_cols == {"gf", "ga", "sh", "sot", "dist", "fk", "pk", "pkatt"}

\* f"{c}_rolling"
RollingName ==
    [c \in all_possible_cols |->
        CASE c = "gf" -> "gf_rolling" [] c = "ga" -> "ga_rolling"
          [] c = "sh" -> "sh_rolling" [] c = "sot" -> "sot_rolling"
          [] c = "dist" -> "dist_rolling" [] c = "fk" -> "fk_rolling"
          [] c = "pk" -> "pk_rolling" [] c = "pkatt" -> "pkatt_rolling"]

\* the columns of the empty table returned for an empty input
ExpectedColumns ==
    {"date", "team", "opponent", "venue", "result", "team_code", "venue_code",
     "opp_code", "hour", "day_code", "target",
     "gf_rolling", "ga_rolling", "sh_rolling", "sot_rolling"}

\* sorted(): the alphabetical rank of a team name
TeamRank == [t \in Teams |-> IF t = "A" THEN 1 ELSE 2]

\* an encoder that keeps counting on a table that already has team codes
TeamCode_Cumulative(cols, T, team) ==
    Cardinality({q.team : q \in {p \in T : TeamRank[p.team] < TeamRank[team]}})
        + (IF "team_code" \in cols THEN Cardinality({q.team : q \in T}) ELSE 0)

\* team_code_dict: the position of the team among the sorted teams of the
\* table (cols: the columns of the table when it is encoded)
TeamCode(cols, T, team) ==
    Cardinality({q.team : q \in {p \in T : TeamRank[p.team] < TeamRank[team]}})

\* (df['result'] == 'W').astype('int')
Target(r) == IF r.result = "W" THEN 1 ELSE 0

\* prepare_model_data on the table object with columns cols and records T:
\* the columns the object has afterwards (df) and the returned table.  The
\* raw tables carry the stat columns, so available_cols is never empty.
PrepareResult(cols, T) ==
    IF T = {} THEN [df |-> cols, cols |-> ExpectedColumns, rows |-> <<>>]
    ELSE LET encoded == cols \cup EncodedColumns
             available_cols == all_possible_cols \cap encoded
         IN  [df |-> encoded,
              cols |-> encoded \cup {RollingName[c] : c \in available_cols},
              rows |-> [r \in T |->
                          LET rolling == RollingAverages(T, r)
                          IN  [gf_rolling |-> rolling.gf_rolling,
                               ga_rolling |-> rolling.ga_rolling,
                               team_code |-> TeamCode(cols, T, r.team),
                               target |-> Target(r)]]]

PrepareModelData ==
    /\ prepared.calls < MaxPrepCalls
    /\ LET out == PrepareResult(dfColumns, matches)
       IN  /\ prepared' = [done |-> TRUE, calls |-> prepared.calls + 1,
                           cols |-> out.cols, rows |-> out.rows,
                           prevCols |-> prepared.cols, prevRows |-> prepared.rows]
           /\ dfColumns' = out.df
    /\ UNCHANGED <<regVars, unitVars, matches, features, featVars, stepVars>>

(***************************************************************************)
(* The model objects on their own: construction, train, predict and        *)
(* predict_proba of FootballPredictionModel and EnsemblePredictor.         *)
(***************************************************************************)
\* EnsemblePredictor.__init__(..., model_version="1.0")
DefaultEnsembleVersion == <<"1.0", NoStamp>>

\* the matrices X: up to MaxBatch rows of the input matrix
RECURSIVE Batches(_)
Batches(n) ==
    IF n = 0 THEN {<<>>}
    ELSE Batches(n - 1) \cup {Append(X, x) : X \in {B \in Batches(n - 1) : Len(B) = n - 1},
                                              x \in InputRows}

\* check_is_fitted / check_array of a base learner: NotFittedError without
\* classes_, ValueError on a matrix of zero rows
BaseRaises(fit, X) == fit = 0 \/ Len(X) = 0

\* class of a probability: argmax for the forest, (p > 0.5) for the ensemble
ClassOf(p) == IF p > Half THEN 1 ELSE 0

\* FootballPredictionModel.predict / EnsemblePredictor.predict
PredictResult(m, X) ==
    IF m.cls = "rf"
    THEN IF m.rf_fit = 0
         THEN [raised |-> FALSE, out |-> [i \in DOMAIN X |-> 0]]
         ELSE IF BaseRaises(m.rf_fit, X)
         THEN [raised |-> TRUE, out |-> <<>>]
         ELSE [raised |-> FALSE, out |-> [i \in DOMAIN X |-> ClassOf(BaseProba(m.rf_fit, X[i]))]]
    ELSE IF BaseRaises(m.rf_fit, X) \/ BaseRaises(m.xgb_fit, X)
         THEN [raised |-> TRUE, out |-> <<>>]
         ELSE [raised |-> FALSE,
               out |-> [i \in DOMAIN X |->
                          ClassOf((RfWeight * BaseProba(m.rf_fit, X[i])
                                   + XgbWeight * BaseProba(m.xgb_fit + 1, X[i])) \div 100)]]

\* predict_proba: one pair <<P(0), P(1)>> per row
PredictProbaResult(m, X) ==
    IF ~IsFitted(m)
    THEN [raised |-> FALSE, out |-> [i \in DOMAIN X |-> <<Half, Half>>]]
    ELSE IF BaseRaises(m.rf_fit, X)
    THEN [raised |-> TRUE, out |-> <<>>]
    ELSE [raised |-> FALSE,
          out |-> [i \in DOMAIN X |-> <<1000 - PredictProba(m, X[i]), PredictProba(m, X[i])>>]]

\* train(X, y) on training set d; d = 0 is the empty table
TrainResult(m, d) ==
    IF d = 0 THEN m
    ELSE IF m.cls = "rf" THEN [m EXCEPT !.rf_fit = d]
    ELSE [m EXCEPT !.rf_fit = d, !.xgb_fit = d]

NoCall == [method |-> "none", model |-> NoModel, X |-> <<>>, raised |-> FALSE, out |-> <<>>]

Construct ==
    /\ obj' \in {FootballPredictionModel(Unversioned, 0),
                 EnsemblePredictor(DefaultEnsembleVersion, 0, 0)}
    /\ UNCHANGED <<regVars, dataVars, lastCall, aug, ingest, featVars, stepVars>>

TrainModel ==
    /\ obj # NoModel
    /\ \E d \in 0..MaxTrainSets : obj' = TrainResult(obj, d)
    /\ UNCHANGED <<regVars, dataVars, lastCall, aug, ingest, featVars, stepVars>>

Predict ==
    /\ obj # NoModel
    /\ \E X \in Batches(MaxBatch) :
          LET r == PredictResult(obj, X)
          IN  lastCall' = [method |-> "predict", model |-> obj, X |-> X,
                           raised |-> r.raised, out |-> r.out]
    /\ UNCHANGED <<regVars, dataVars, obj, aug, ingest, featVars, stepVars>>

PredictProbaCall ==
    /\ obj # NoModel
    /\ \E X \in Batches(MaxBatch) :
          LET r == PredictProbaResult(obj, X)
          IN  lastCall' = [method |-> "predict_proba", model |-> obj, X |-> X,
                           raised |-> r.raised, out |-> r.out]
    /\ UNCHANGED <<regVars, dataVars, obj, aug, ingest, featVars, stepVars>>

(***************************************************************************)
(* augment_data on a table of result rows.  A row is its gf, ga and result *)
(* cells; the normal noise added to gf and ga is one of Noise.             *)
(***************************************************************************)
Noise == {-1, 0, 1}

\* a row of the table the training functions hand to augment_data: the
\* statistics, the result and the target column made from the result
StatRow(o) ==
    [gf |-> o.goals_for, ga |-> o.goals_against, result |-> o.result, target |-> Target(o)]

\* the tables of up to n rows
RECURSIVE StatTables(_)
StatTables(n) ==
    IF n = 0 THEN {<<>>}
    ELSE StatTables(n - 1) \cup {Append(T, StatRow(o)) :
                                    T \in {U \in StatTables(n - 1) : Len(U) = n - 1},
                                    o \in Outcomes}

\* lambda x: 'W' if x['gf'] > x['ga'] else ('D' if x['gf'] == x['ga'] else 'L')
ResultOf(gf, ga) == IF gf > ga THEN "W" ELSE IF gf = ga THEN "D" ELSE "L"

\* a synthetic row that keeps the result of the row it was sampled from
SyntheticRow_StaleResult(row, dgf, dga) ==
    [gf |-> row.gf + dgf, ga |-> row.ga + dga, result |-> row.result,
     target |-> row.target]

\* a sampled row after the noise is added and the result recalculated; the
\* other columns, target among them, are those of the sampled row
SyntheticRow(row, dgf, dga) ==
    [gf |-> row.gf + dgf, ga |-> row.ga + dga,
     result |-> ResultOf(row.gf + dgf, row.ga + dga), target |-> row.target]

\* the draws of one call: per synthetic row the sampled position and the
\* noise of gf and ga
Draws(n, k) == [1..k -> (1..n) \X Noise \X Noise]

\* pd.concat([data, synthetic_data])
AugmentData(data, k, draw) ==
    data \o [j \in 1..k |-> SyntheticRow(data[draw[j][1]], draw[j][2], draw[j][3])]

NoAugment == [called |-> FALSE, raised |-> FALSE, data |-> <<>>, after |-> <<>>,
              k |-> 0, out |-> <<>>]

\* one call on each table (data.sample(n_samples, replace=True) raises
\* ValueError on an empty table)
Augment ==
    /\ ~aug.called
    /\ \E data \in StatTables(MaxAugRows), k \in 1..MaxSynth :
          IF Len(data) = 0
          THEN aug' = [called |-> TRUE, raised |-> TRUE, data |-> data, after |-> data,
                       k |-> k, out |-> <<>>]
          ELSE \E draw \in Draws(Len(data), k) :
                  aug' = [called |-> TRUE, raised |-> FALSE, data |-> data, after |-> data,
                          k |-> k, out |-> AugmentData(data, k, draw)]
    /\ UNCHANGED <<regVars, dataVars, obj, lastCall, ingest, featVars, stepVars>>

(***************************************************************************)
(* The ingestion boundary: load_data(file_path) and the upload_data        *)
(* endpoint.  A file is known by its columns and its number of rows.       *)
(***************************************************************************)
CoreColumns == {"date", "team", "opponent", "venue", "result"}

StatColumns == {"gf", "ga", "sh", "sot"}

\* required_columns of load_data
required_columns == CoreColumns \cup StatColumns

\* the column layouts of the files: any core column may be missing, the stat
\* columns and the time column are there or not
CsvLayouts ==
    {(CoreColumns \ missing) \cup stats \cup time :
        missing \in SUBSET CoreColumns, stats \in {{}, StatColumns},
        time \in {{}, {"time"}}}

NoStatus == 0
BadRequest == 400     \* HTTPException(status_code=400, ...)

NoIngest ==
    [op |-> "none", n |-> 0, exists |-> FALSE, fileCols |-> {}, fileRows |-> 0,
     raised |-> FALSE, status |-> NoStatus, cols |-> {}, rows |-> 0]

\* load_data: the table it returns for a file with columns cols and n rows
LoadDataResult(exists, cols, n) ==
    IF ~exists THEN [cols |-> required_columns \cup {"time"}, rows |-> 0]
    ELSE IF ~(required_columns \subseteq cols)
    THEN [cols |-> required_columns \cup {"time"}, rows |-> 0]
    ELSE [cols |-> cols \cup {"time"}, rows |-> n]

LoadData ==
    /\ ingest.n < MaxIngests
    /\ \E exists \in BOOLEAN, cols \in CsvLayouts, n \in 0..MaxCsvRows :
          LET r == LoadDataResult(exists, cols, n)
          IN  ingest' = [op |-> "load_data", n |-> ingest.n + 1, exists |-> exists,
                         fileCols |-> IF exists THEN cols ELSE {},
                         fileRows |-> IF exists THEN n ELSE 0,
                         raised |-> FALSE, status |-> NoStatus,
                         cols |-> r.cols, rows |-> r.rows]
    /\ UNCHANGED <<regVars, dataVars, obj, lastCall, aug, featVars, stepVars>>

\* upload_data: the validation of the columns, then the defaults of the
\* optional columns, prepare_model_data on the table and a training run
UploadData ==
    /\ ingest.n < MaxIngests
    /\ \E isCsv \in BOOLEAN, cols \in CsvLayouts, n \in 0..MaxCsvRows :
          LET missing_columns == CoreColumns \ cols
              rejected == ~isCsv \/ missing_columns # {}
              data == cols \cup {"time"} \cup StatColumns
          IN  IF rejected
              THEN /\ ingest' = [op |-> "upload_data", n |-> ingest.n + 1, exists |-> TRUE,
                                 fileCols |-> cols, fileRows |-> n,
                                 raised |-> TRUE, status |-> BadRequest,
                                 cols |-> {}, rows |-> 0]
                   /\ UNCHANGED <<files, rows, lastOp, runNames, lastRun>>
              ELSE /\ ingest' = [op |-> "upload_data", n |-> ingest.n + 1, exists |-> TRUE,
                                 fileCols |-> cols, fileRows |-> n,
                                 raised |-> FALSE, status |-> NoStatus,
                                 cols |-> IF n = 0 THEN data ELSE data \cup EncodedColumns,
                                 rows |-> n]
                   /\ TrainEffect("rf", Table(n, 0))
    /\ UNCHANGED <<now, nTicks, nCalls, nRuns, dataVars, obj, lastCall, aug, featVars, stepVars>>

(***************************************************************************)
(* Betting-odds features (feature_generator.py, _add_odds_features).       *)
(* The columns are binary floating-point numbers.  The model keeps the     *)
(* arithmetic of that format -- round to nearest even, gradual underflow,  *)
(* overflow to infinity, NaN -- on a format of Precision significand bits.  *)
(* A finite float is the count of its units, one unit being the smallest   *)
(* subnormal; as in the double format, the reciprocal of the smallest      *)
(* subnormals lies above the largest finite float.                         *)
(***************************************************************************)
Precision == 8

One == 1024

MinNormal == 2^(Precision - 1)

MaxFinite == (2^Precision - 1) * 2^7

FInf == -1

FNaN == -2

\* Four units of roundoff around 1.0; the 1e-9 of a double is more than
\* 2^22 units of roundoff.
Tolerance == 4 * (One \div 2^Precision)

RECURSIVE Spacing(_, _)
\* Distance between neighbouring floats around n/d units.
Spacing(n, d) == IF n < d * 2^Precision THEN 1 ELSE 2 * Spacing(n, 2 * d)

RoundHalfEven(n, d) ==
    LET q == n \div d
        r == n % d
    IN  IF 2 * r < d THEN q
        ELSE IF 2 * r > d THEN q + 1
        ELSE IF q % 2 = 0 THEN q ELSE q + 1

\* The float nearest to n/d units, infinity beyond the largest finite one.
Round(n, d) ==
    LET s == Spacing(n, d)
        k == s * RoundHalfEven(n, d * s)
    IN  IF k > MaxFinite THEN FInf ELSE k

\* a / b on non-negative floats.
FDiv(a, b) ==
    IF a = FNaN \/ b = FNaN THEN FNaN
    ELSE IF a = FInf THEN (IF b = FInf THEN FNaN ELSE FInf)
    ELSE IF b = FInf THEN 0
    ELSE IF b = 0 THEN (IF a = 0 THEN FNaN ELSE FInf)
    ELSE Round(a * One, b)

\* a + b on non-negative floats.
FAdd(a, b) ==
    IF a = FNaN \/ b = FNaN THEN FNaN
    ELSE IF a = FInf \/ b = FInf THEN FInf
    ELSE Round(a + b, 1)

\* df[prob_columns].sum(axis=1), a NaN cell being skipped.
TotalImpliedProb_TwoColumns(p) ==
    LET v == [i \in 1..3 |-> IF p[i] = FNaN THEN 0 ELSE p[i]]
    IN  FAdd(v[1], v[2])

TotalImpliedProb(p) ==
    LET v == [i \in 1..3 |-> IF p[i] = FNaN THEN 0 ELSE p[i]]
    IN  FAdd(FAdd(v[1], v[2]), v[3])

\* The odds columns of one row after _add_odds_features; o is
\* <<home_win_odds, draw_odds, away_win_odds>>.  market_expected_goals and
\* win_surprise are read-only uses of the normalized columns.
OddsFeatures(o) ==
    LET implied == [i \in 1..3 |-> FDiv(One, o[i])]
        total == TotalImpliedProb(implied)
    IN  [called |-> TRUE, odds |-> o, implied |-> implied,
         total_implied_prob |-> total,
         normalized |-> [i \in 1..3 |-> FDiv(implied[i], total)]]

NoOdds == [called |-> FALSE, odds |-> <<One, One, One>>, implied |-> <<One, One, One>>,
           total_implied_prob |-> 0, normalized |-> <<0, 0, 0>>]

\* Positive odds: the smallest subnormals, the smallest normal float, and
\* decimal odds 1.00, 1.25, ... in quarter steps.
OddsValues ==
    (1..MaxTinyOdds) \cup {MinNormal} \cup {j * (One \div 4) : j \in 4..MaxQuarterOdds}

AddOddsFeatures ==
    /\ ~odds.called
    /\ \E h \in OddsValues, d \in OddsValues, a \in OddsValues :
          odds' = OddsFeatures(<<h, d, a>>)
    /\ UNCHANGED <<regVars, dataVars, unitVars, h2h, sched, weather, stepVars>>

(***************************************************************************)
(* Head-to-head features (feature_generator.py,                            *)
(* _add_head_to_head_features).  A table is a sequence of rows.            *)
(***************************************************************************)
H2HTeams == {"A", "B", "C"}

H2HRows ==
    {[team |-> t, opponent |-> p, result |-> o.result,
      goals_for |-> o.goals_for, goals_against |-> o.goals_against] :
        t \in H2HTeams, p \in H2HTeams, o \in Outcomes}

H2HTables ==
    UNION {[1..n -> {r \in H2HRows : r.team # r.opponent}] : n \in 1..MaxH2HRows}

\* df[(df['team'] == team) & (df['opponent'] == opponent)]
team_matches(T, team, opponent) ==
    {i \in DOMAIN T : T[i].team = team /\ T[i].opponent = opponent}

\* the (team, opponent) pairs of h2h_results: both names are taken from
\* df['team'].unique()
h2h_pairs(T) ==
    LET teams == {T[i].team : i \in DOMAIN T}
    IN  {pr \in teams \X teams :
            pr[1] # pr[2] /\ team_matches(T, pr[1], pr[2]) # {}}

h2h_stats(T, team, opponent) ==
    LET M == team_matches(T, team, opponent)
        n == Cardinality(M)
        wins == Cardinality({i \in M : T[i].result = "W"})
        draws == Cardinality({i \in M : T[i].result = "D"})
        gf == SumRange([i \in DOMAIN T |-> IF i \in M THEN T[i].goals_for ELSE 0], 1, Len(T))
        ga == SumRange([i \in DOMAIN T |-> IF i \in M THEN T[i].goals_against ELSE 0], 1, Len(T))
    IN  [h2h_matches |-> n, h2h_wins |-> wins, h2h_draws |-> draws,
         h2h_losses |-> Cardinality({i \in M : T[i].result = "L"}),
         h2h_goals_for |-> gf, h2h_goals_against |-> ga,
         h2h_win_rate |-> <<wins, n>>,
         h2h_points_per_game |-> <<wins * 3 + draws, n>>,
         h2h_avg_goals_for |-> <<gf, n>>,
         h2h_avg_goals_against |-> <<ga, n>>]

\* the fillna defaults of a row the left merge found no aggregate for
h2h_filled ==
    [h2h_matches |-> 0, h2h_wins |-> 0, h2h_draws |-> 0, h2h_losses |-> 0,
     h2h_goals_for |-> 0, h2h_goals_against |-> 0,
     h2h_win_rate |-> <<1, 2>>, h2h_points_per_game |-> <<1, 2>>,
     h2h_avg_goals_for |-> <<0, 1>>, h2h_avg_goals_against |-> <<0, 1>>]

\* _add_head_to_head_features(df): the frame is returned as it came when
\* h2h_results is empty.
HeadToHeadFeatures(T) ==
    LET pairs == h2h_pairs(T)
    IN  IF pairs = {}
        THEN [called |-> TRUE, table |-> T, hasColumns |-> FALSE, rows |-> <<>>]
        ELSE [called |-> TRUE, table |-> T, hasColumns |-> TRUE,
              rows |-> [i \in DOMAIN T |->
                          IF <<T[i].team, T[i].opponent>> \in pairs
                          THEN h2h_stats(T, T[i].team, T[i].opponent)
                          ELSE h2h_filled]]

NoH2H == [called |-> FALSE, table |-> <<>>, hasColumns |-> FALSE, rows |-> <<>>]

AddHeadToHeadFeatures ==
    /\ ~h2h.called
    /\ \E T \in H2HTables : h2h' = HeadToHeadFeatures(T)
    /\ UNCHANGED <<regVars, dataVars, unitVars, odds, sched, weather, stepVars>>

(***************************************************************************)
(* Schedule features (feature_generator.py, _add_schedule_features).       *)
(* groupby over ['team', pd.cut(...)] keeps every (team, label) pair, the  *)
(* pairs without rows holding NaN, which is what the three column names    *)
(* assigned to the unstacked frame rely on.                                *)
(***************************************************************************)
SchedDays == {0, 3, 6, 13}

SchedRows ==
    {[team |-> t, date |-> d, points |-> p] : t \in Teams, d \in SchedDays, p \in {0, 3}}

SchedTables == UNION {[1..n -> SchedRows] : n \in 1..MaxSchedRows}

NoGap == -1

\* the rows of the same team that sort_values(['team', 'date']) puts before row i
EarlierRows(T, i) ==
    {j \in DOMAIN T : /\ T[j].team = T[i].team
                      /\ \/ T[j].date < T[i].date
                         \/ T[j].date = T[i].date /\ j < i}

\* (df['date'] - df['prev_match_date']).dt.days, NoGap on a team's first row
days_since_last_match(T, i) ==
    LET E == EarlierRows(T, i)
    IN  IF E = {} THEN NoGap
        ELSE T[i].date - T[CHOOSE j \in E : \A k \in E : T[k].date <= T[j].date].date

match_density_30d(T, i) ==
    Cardinality({j \in EarlierRows(T, i) : T[i].date - T[j].date <= 30})

quick_turnaround(d) == d < 4 /\ d # NoGap

RestLabels == <<"short", "medium", "long">>

NoBucket == "none"

\* pd.cut(d, bins=[0, 3, 6, inf], labels=['short', 'medium', 'long']): the
\* intervals are open on the left and closed on the right
RestBucket(d) ==
    IF d = NoGap \/ d <= 0 THEN NoBucket
    ELSE IF d <= 3 THEN "short"
    ELSE IF d <= 6 THEN "medium"
    ELSE "long"

RatAdd(p, q) == <<p[1] * q[2] + q[1] * p[2], p[2] * q[2]>>

\* mean of the points of the rows of one (team, label) group, NaN when empty
rest_perf(T, team, label) ==
    LET G == {i \in DOMAIN T : T[i].team = team
                               /\ RestBucket(days_since_last_match(T, i)) = label}
    IN  IF G = {} THEN NaN
        ELSE <<SumRange([i \in DOMAIN T |-> IF i \in G THEN T[i].points ELSE 0], 1, Len(T)),
               Cardinality(G)>>

RECURSIVE RatMeanOf(_, _, _)
\* mean of the non-NaN entries of a sequence of rationals
RatMeanOf(cells, sum, n) ==
    IF cells = <<>> THEN (IF n = 0 THEN NaN ELSE <<sum[1], sum[2] * n>>)
    ELSE IF IsNaN(Head(cells)) THEN RatMeanOf(Tail(cells), sum, n)
    ELSE RatMeanOf(Tail(cells), RatAdd(sum, Head(cells)), n + 1)

TeamOrder == <<"A", "B">>

\* the cells of rest_perf, team by team
RestCells(T, teams) ==
    LET row(t) == IF t \in teams THEN [b \in 1..3 |-> rest_perf(T, t, RestLabels[b])] ELSE <<>>
    IN  row(TeamOrder[1]) \o row(TeamOrder[2])

\* rest_perf.mean(): one number for the whole series
RestPerfMean(T) == RatMeanOf(RestCells(T, {T[i].team : i \in DOMAIN T}), <<0, 1>>, 0)

\* rest_perf.unstack().fillna(rest_perf.mean()) for one team, fill being
\* rest_perf.mean()
RestColumns(T, team, fill) ==
    [b \in 1..3 |->
        LET c == rest_perf(T, team, RestLabels[b]) IN IF IsNaN(c) THEN fill ELSE c]

ScheduleFeatures(T, gaps, fill) ==
    LET empty == \A i \in DOMAIN T : RestBucket(gaps[i]) = NoBucket
    IN  [called |-> TRUE, table |-> T, hasRestColumns |-> ~empty,
         rows |-> [i \in DOMAIN T |->
                     [days_since_last_match |-> gaps[i],
                      match_density_30d |-> match_density_30d(T, i),
                      quick_turnaround |-> quick_turnaround(gaps[i]),
                      bucket |-> RestBucket(gaps[i]),
                      rest |-> IF empty THEN <<NaN, NaN, NaN>>
                               ELSE RestColumns(T, T[i].team, fill)]]]

NoSchedule == [called |-> FALSE, table |-> <<>>, hasRestColumns |-> FALSE, rows |-> <<>>]

AddScheduleFeatures ==
    /\ ~sched.called
    /\ \E T \in SchedTables :
          \E gaps \in {[i \in DOMAIN T |-> days_since_last_match(T, i)]} :
             \E fill \in {RestPerfMean(T)} :
                sched' = ScheduleFeatures(T, gaps, fill)
    /\ UNCHANGED <<regVars, dataVars, unitVars, odds, h2h, weather, stepVars>>

(***************************************************************************)
(* Weather features (feature_generator.py, _add_weather_features).  The    *)
(* means of a groupby do not depend on the order of the rows, so a table   *)
(* is a set of rows; the weather of a row is one of WeatherKinds.          *)
(***************************************************************************)
WeatherKinds ==
    {[temperature_c |-> 2, precipitation_mm |-> 4, wind_kph |-> 30],
     [temperature_c |-> 28, precipitation_mm |-> 0, wind_kph |-> 10],
     [temperature_c |-> 15, precipitation_mm |-> 0, wind_kph |-> 10]}

Venues == {"Home", "Away"}

WeatherRows ==
    {[team |-> t, venue |-> v, points |-> p, temperature_c |-> k.temperature_c,
      precipitation_mm |-> k.precipitation_mm, wind_kph |-> k.wind_kph] :
        t \in Teams, v \in Venues, p \in {0, 3}, k \in WeatherKinds}

WeatherTables == {T \in SUBSET WeatherRows : Cardinality(T) \in 1..MaxWeatherRows}

Conditions == {"is_rainy", "is_windy", "is_cold", "is_hot"}

\* the weather condition categories of a row
Holds(condition, r) ==
    CASE condition = "is_rainy" -> r.precipitation_mm > 1
      [] condition = "is_windy" -> r.wind_kph > 25
      [] condition = "is_cold" -> r.temperature_c < 5
      [] condition = "is_hot" -> r.temperature_c > 25

RECURSIVE SumPoints(_)
SumPoints(S) ==
    IF S = {} THEN 0
    ELSE LET r == CHOOSE r \in S : TRUE IN r.points + SumPoints(S \ {r})

\* one cell of df[df['venue'] == venue].groupby(['team', condition])['points'].mean()
VenuePerf(T, venue, condition, team, value) ==
    LET G == {r \in T : r.venue = venue /\ r.team = team /\ Holds(condition, r) = value}
    IN  IF G = {} THEN NaN ELSE <<SumPoints(G), Cardinality(G)>>

\* the columns of the unstacked frame: the values of the condition that
\* occur among the rows of the venue
UnstackedColumns(T, venue, condition) ==
    {Holds(condition, r) : r \in {q \in T : q.venue = venue}}

\* perf.columns = [normal, condition] takes a frame of exactly two columns
RenameRaises(T, venue, condition) ==
    Cardinality(UnstackedColumns(T, venue, condition)) # 2

RatSub(p, q) ==
    IF IsNaN(p) \/ IsNaN(q) THEN NaN ELSE <<p[1] * q[2] - q[1] * p[2], p[2] * q[2]>>

\* <venue>_<condition>_impact of a team: NaN where either mean is missing
Impact(T, venue, condition, team) ==
    RatSub(VenuePerf(T, venue, condition, team, TRUE),
           VenuePerf(T, venue, condition, team, FALSE))

WeatherFeatures(T) ==
    IF \E c \in Conditions, v \in Venues : RenameRaises(T, v, c)
    THEN [called |-> TRUE, table |-> T, raised |-> TRUE, impact |-> <<>>]
    ELSE [called |-> TRUE, table |-> T, raised |-> FALSE,
          impact |-> [t \in {r.team : r \in T} |->
                        [c \in Conditions |-> [v \in Venues |-> Impact(T, v, c, t)]]]]

NoWeather == [called |-> FALSE, table |-> {}, raised |-> FALSE, impact |-> <<>>]

AddWeatherFeatures ==
    /\ ~weather.called
    /\ \E T \in WeatherTables : weather' = WeatherFeatures(T)
    /\ UNCHANGED <<regVars, dataVars, unitVars, odds, h2h, sched, stepVars>>

(***************************************************************************)
(* The database session of a registry call (model_versioning.py), one      *)
(* step per statement that opens, uses or closes it.  What the calls do    *)
(* to the rows and the files is modelled by the registry actions above.    *)
(***************************************************************************)
RegistryOps ==
    {"register_model", "get_model_versions", "get_latest_version",
     "get_version_details", "load_model"}

\* what goes wrong during a call: nothing, joblib.dump raises, SessionLocal()
\* raises, a statement of the try body raises, the body and db.rollback() raise
Faults == {"none", "dump", "session", "body", "rollback"}

NoSession ==
    [op |-> "none", fault |-> "none", byName |-> FALSE, pc |-> "idle",
     open |-> 0, opened |-> 0, raised |-> FALSE, calls |-> 0]

\* first statement of an operation that touches a file or the database
FirstStep(op, byName) ==
    IF op = "register_model" THEN "dump"
    ELSE IF op = "load_model" /\ byName THEN "file"
    ELSE "session"

\* where control goes when the try body raises: register_model has an
\* except clause, the queries have try / finally only
AfterRaise_NoFinally(op) == IF op = "register_model" THEN "except" ELSE "returned"

AfterRaise(op) == IF op = "register_model" THEN "except" ELSE "finally"

Call ==
    /\ sess.pc \in {"idle", "returned"}
    /\ sess.calls < MaxSessionCalls
    /\ \E op \in RegistryOps, fault \in Faults, byName \in BOOLEAN :
          sess' = [sess EXCEPT !.op = op, !.fault = fault, !.byName = byName,
                               !.pc = FirstStep(op, byName), !.opened = 0,
                               !.raised = FALSE, !.calls = @ + 1]
    /\ UNCHANGED <<regVars, dataVars, unitVars, featVars, refresh>>

\* joblib.dump(model, model_path), before the session exists
JoblibDump ==
    /\ sess.pc = "dump"
    /\ sess' = IF sess.fault = "dump"
               THEN [sess EXCEPT !.pc = "returned", !.raised = TRUE]
               ELSE [sess EXCEPT !.pc = "session"]
    /\ UNCHANGED <<regVars, dataVars, unitVars, featVars, refresh>>

\* db = SessionLocal()
OpenSession ==
    /\ sess.pc = "session"
    /\ sess' = IF sess.fault = "session"
               THEN [sess EXCEPT !.pc = "returned", !.raised = TRUE]
               ELSE [sess EXCEPT !.pc = "body", !.open = @ + 1, !.opened = @ + 1]
    /\ UNCHANGED <<regVars, dataVars, unitVars, featVars, refresh>>

\* the statements between try: and the return
TryBody ==
    /\ sess.pc = "body"
    /\ sess' = IF sess.fault \in {"body", "rollback"}
               THEN [sess EXCEPT !.pc = AfterRaise(sess.op), !.raised = TRUE]
               ELSE [sess EXCEPT !.pc = "finally"]
    /\ UNCHANGED <<regVars, dataVars, unitVars, featVars, refresh>>

\* except Exception: db.rollback(); return version_name
ExceptRollback ==
    /\ sess.pc = "except"
    /\ sess' = [sess EXCEPT !.pc = "finally", !.raised = (sess.fault = "rollback")]
    /\ UNCHANGED <<regVars, dataVars, unitVars, featVars, refresh>>

\* finally: db.close(); load_model goes on to the file when
\* get_latest_version returned
FinallyClose ==
    /\ sess.pc = "finally"
    /\ sess' = [sess EXCEPT !.open = @ - 1,
                            !.pc = IF sess.op = "load_model" /\ ~sess.raised
                                   THEN "file" ELSE "returned"]
    /\ UNCHANGED <<regVars, dataVars, unitVars, featVars, refresh>>

\* os.path.exists / joblib.load inside load_model's own try / except
LoadFile ==
    /\ sess.pc = "file"
    /\ sess' = [sess EXCEPT !.pc = "returned"]
    /\ UNCHANGED <<regVars, dataVars, unitVars, featVars, refresh>>

(***************************************************************************)
(* FootballDataIntegrator.full_data_refresh (integrator.py).  The          *)
(* extraction steps catch their own exceptions and return an empty frame;  *)
(* a call is known by the number of matches extracted and by the step, if  *)
(* any, that raises.                                                       *)
(***************************************************************************)
RefreshFaults == {"none", "integrate", "load"}

NoTable == [exists |-> FALSE, rows |-> 0, by |-> 0]

NoRefresh ==
    [calls |-> 0, integrated_matches |-> NoTable, n |-> 0, fault |-> "none",
     returned |-> FALSE, loggedSuccess |-> FALSE, written |-> FALSE]

\* _load_integrated_data(df): to_sql(..., if_exists='replace') replaces the
\* table; an exception is logged and answered with False
LoadIntegratedData(table, n, call, fault) ==
    IF fault = "load"
    THEN [table |-> table, value |-> FALSE]
    ELSE [table |-> [exists |-> TRUE, rows |-> n, by |-> call], value |-> TRUE]

\* full_data_refresh(): the value of _load_integrated_data is not looked at
FullDataRefreshResult(r, n, fault) ==
    LET call == r.calls + 1
    IN  IF n = 0 \/ fault = "integrate"
        THEN [r EXCEPT !.calls = call, !.n = n, !.fault = fault, !.returned = FALSE,
                       !.loggedSuccess = FALSE, !.written = FALSE]
        ELSE LET load == LoadIntegratedData(r.integrated_matches, n, call, fault)
             IN  [r EXCEPT !.calls = call, !.n = n, !.fault = fault,
                           !.integrated_matches = load.table,
                           !.returned = TRUE, !.loggedSuccess = TRUE,
                           !.written = load.value]

FullDataRefresh ==
    /\ refresh.calls < MaxRefreshes
    /\ \E n \in 0..MaxRefreshRows, fault \in RefreshFaults :
          refresh' = FullDataRefreshResult(refresh, n, fault)
    /\ UNCHANGED <<regVars, dataVars, unitVars, featVars, sess>>

Init ==
    /\ now = 0
    /\ nTicks = 0
    /\ files = <<>>
    /\ rows = <<>>
    /\ nCalls = 0
    /\ lastOp = NoOp
    /\ nRuns = 0
    /\ runNames = <<>>
    /\ lastRun = NoRun
    /\ matches = {}
    /\ features = NotComputed
    /\ prepared = NotPrepared
    /\ dfColumns = RawColumns
    /\ obj = NoModel
    /\ lastCall = NoCall
    /\ aug = NoAugment
    /\ ingest = NoIngest
    /\ odds = NoOdds
    /\ h2h = NoH2H
    /\ sched = NoSchedule
    /\ weather = NoWeather
    /\ sess = NoSession
    /\ refresh = NoRefresh

NextRegistry == RegisterModel \/ LoadModel \/ GetLatestVersion \/ TickSecond

SpecRegistry == Init /\ [][NextRegistry]_vars

NextTrain == TrainPredictionModel \/ TrainEnsembleModel \/ TickSecond \/ TickMinute

SpecTrain == Init /\ [][NextTrain]_vars

NextData == AddRecord \/ AddTeamFormFeatures \/ PrepareModelData

SpecData == Init /\ [][NextData]_vars

NextPrepare == AddRecord \/ PrepareModelData

SpecPrepare == Init /\ [][NextPrepare]_vars

NextPredict == Construct \/ TrainModel \/ Predict \/ PredictProbaCall

SpecPredict == Init /\ [][NextPredict]_vars

NextAugment == Augment

SpecAugment == Init /\ [][NextAugment]_vars

NextIngest == LoadData \/ UploadData

SpecIngest == Init /\ [][NextIngest]_vars

NextOdds == AddOddsFeatures

SpecOdds == Init /\ [][NextOdds]_vars

NextH2H == AddHeadToHeadFeatures

SpecH2H == Init /\ [][NextH2H]_vars

NextSchedule == AddScheduleFeatures

SpecSchedule == Init /\ [][NextSchedule]_vars

NextWeather == AddWeatherFeatures

SpecWeather == Init /\ [][NextWeather]_vars

NextSession ==
    Call \/ JoblibDump \/ OpenSession \/ TryBody \/ ExceptRollback \/ FinallyClose \/ LoadFile

SpecSession == Init /\ [][NextSession]_vars

NextRefresh == FullDataRefresh

SpecRefresh == Init /\ [][NextRefresh]_vars

(***************************************************************************)
(* Properties of the registry.                                             *)
(***************************************************************************)

\* C1: after any sequence of register_model calls the metadata store holds
\* at most one ModelVersion row per version_name.
C1_OneRowPerVersionName ==
    \A i, j \in DOMAIN rows :
        rows[i].version_name = rows[j].version_name => i = j

\* a register_model call repeated a version_name that already had its row
C1_Witness ==
    /\ lastOp.op = "register"
    /\ ~lastOp.committed
    /\ lastOp.arg # NoName
    /\ HasRow(lastOp.name)

\* C2: when the metadata insertion of register_model fails, the change is
\* rolled back and the caller can tell the failed call from a successful
\* registration: it raises or returns something else than the success result.
C2_FailureSurfaced ==
    (lastOp.op = "register" /\ ~lastOp.committed)
        => /\ lastOp.rolledBack
           /\ (lastOp.raised \/ lastOp.value # SuccessResult(lastOp.name))

\* C3: versions are write-once: a step taken when a version_name is persisted
\* (it has its metadata row) leaves the row and the stored artifact of that
\* version unchanged.
C3_WriteOnce ==
    [][\A n \in DOMAIN files :
          HasRow(n) =>
             /\ n \in DOMAIN files'
             /\ files'[n] = files[n]
             /\ \A i \in DOMAIN rows : rows[i].version_name = n =>
                    (i \in DOMAIN rows' /\ rows'[i] = rows[i])]_vars

\* C4: register_model(m, version_name = n) immediately followed by
\* load_model(n) returns a model equal to m, with the same predict_proba on
\* every row of the input matrix.
C4_RoundTrip ==
    (/\ lastOp.op = "load"
     /\ lastOp.prevRegistered
     /\ lastOp.arg # NoName
     /\ lastOp.arg = lastOp.prevArg)
        => /\ lastOp.loaded = lastOp.prevModel
           /\ \A x \in InputRows :
                 PredictProba(lastOp.loaded, x) = PredictProba(lastOp.prevModel, x)

\* a fitted model came back from load_model right after its registration
C4_Witness ==
    /\ lastOp.op = "load"
    /\ lastOp.prevRegistered
    /\ lastOp.arg # NoName
    /\ lastOp.arg = lastOp.prevArg
    /\ IsFitted(lastOp.prevModel)
    /\ \E x \in InputRows : PredictProba(lastOp.loaded, x) # Half

\* C12: a get_latest_version(t) call that returns gives None when no row of
\* type t is persisted, and otherwise the version_name of a persisted row of
\* type t whose creation date no other row of type t exceeds; a row of
\* another type, or a name whose metadata insertion failed, is never returned.
C12_LatestOfType ==
    (lastOp.op = "latest" /\ ~lastOp.raised) =>
        LET ofType == {i \in DOMAIN rows : rows[i].model_type = lastOp.model_type}
        IN  IF ofType = {} THEN lastOp.value = NoName
            ELSE \E i \in ofType :
                    /\ lastOp.value = rows[i].version_name
                    /\ \A k \in ofType : rows[k].creation_date <= rows[i].creation_date

\* the latest row of the type was returned while a later row of the other
\* type is persisted
C12_Witness ==
    /\ lastOp.op = "latest"
    /\ lastOp.value # NoName
    /\ \E i, k \in DOMAIN rows :
          /\ rows[i].version_name = lastOp.value
          /\ rows[k].model_type # lastOp.model_type
          /\ rows[k].creation_date > rows[i].creation_date

\* C13: load_model never raises; it returns the artifact stored under the
\* explicit version_name, or under get_latest_version(model_type) when only
\* a type is given, and None when no name resolves or the file is absent.
C13_LoadNeverRaises ==
    lastOp.op = "load" =>
        /\ ~lastOp.raised
        /\ lastOp.arg # NoName => lastOp.name = lastOp.arg
        /\ (lastOp.arg = NoName /\ lastOp.model_type # NoType) =>
              \/ lastOp.name \in LatestVersions(lastOp.model_type)
              \/ lastOp.name = NoName /\ LatestVersions(lastOp.model_type) = {}
        /\ lastOp.loaded =
              IF lastOp.name # NoName /\ FileExists(ModelPath(lastOp.name))
              THEN Load(files[ModelPath(lastOp.name)]) ELSE NoModel

(***************************************************************************)
(* Properties of the training runs.                                        *)
(***************************************************************************)

\* C5: two completed training runs never register under the same
\* version_name.
C5_NewVersionPerRun ==
    \A i, j \in DOMAIN runNames : runNames[i] = runNames[j] => i = j

\* C6: no synthetic row of augment_data is placed in the held-out test split.
C6_NoSyntheticInTest ==
    lastRun.path = "trained" => lastRun.testSyn = 0

C15_AugmentReachesMinimum ==
    lastRun.path = "trained" =>
        /\ (1 <= lastRun.nValid /\ lastRun.nValid < MinTrainRows) =>
              lastRun.nOrig + lastRun.nSyn >= MinTrainRows
        /\ lastRun.nValid >= MinTrainRows => lastRun.nSyn = 0

\* C16: when non-empty input leaves zero valid rows after the filter,
\* train_prediction_model returns the untrained model of its 'no valid data'
\* branch: version default_rf_<timestamp>, registered with the description
\* of that branch.
C16_NoValidDataBranch ==
    (lastRun.fn = "rf" /\ lastRun.nValid = 0) =>
        /\ lastRun.path = "no_valid"
        /\ ~IsFitted(lastRun.returned)
        /\ lastRun.returned.model_version[1] = "default_rf_"
        /\ Len(lastRun.calls) = 1
        /\ lastRun.calls[1].description = "default: no valid data"

(***************************************************************************)
(* Properties of the model objects.                                        *)
(***************************************************************************)

\* C11: on a model that has not been fitted, predict and predict_proba of
\* both classes never raise and return the neutral default for every row of
\* the matrix: class 0 from predict, 0.5/0.5 from predict_proba.
C11_UnfittedDefaults ==
    (lastCall.method # "none" /\ ~IsFitted(lastCall.model)) =>
        /\ ~lastCall.raised
        /\ Len(lastCall.out) = Len(lastCall.X)
        /\ \A i \in DOMAIN lastCall.out :
              lastCall.out[i] = IF lastCall.method = "predict" THEN 0 ELSE <<Half, Half>>

(***************************************************************************)
(* Properties of augment_data.                                             *)
(***************************************************************************)

\* C14: augment_data(data, n_samples = k) on a table of N >= 1 rows returns
\* exactly N + k rows: the N rows of data unchanged, then k synthetic rows
\* whose result is W iff their perturbed gf > ga, L iff gf < ga, D otherwise.
C14_AugmentAddsKRows ==
    (aug.called /\ Len(aug.data) >= 1) =>
        /\ ~aug.raised
        /\ Len(aug.out) = Len(aug.data) + aug.k
        /\ \A i \in 1..Len(aug.data) : aug.out[i] = aug.data[i]
        /\ \A j \in (Len(aug.data) + 1)..Len(aug.out) :
              /\ aug.out[j].result = "W" <=> aug.out[j].gf > aug.out[j].ga
              /\ aug.out[j].result = "L" <=> aug.out[j].gf < aug.out[j].ga
              /\ aug.out[j].result = "D" <=> aug.out[j].gf = aug.out[j].ga

\* a synthetic row whose noise turned the win it was sampled from into a draw
C14_Witness ==
    /\ aug.called
    /\ Len(aug.data) = MaxAugRows
    /\ \A i \in DOMAIN aug.data : aug.data[i].result = "W"
    /\ \E j \in (Len(aug.data) + 1)..Len(aug.out) : aug.out[j].result # "W"

(***************************************************************************)
(* Properties of the rolling features.                                     *)
(***************************************************************************)

\* the at most w records of r's team immediately preceding r, r excluded
PriorWindow(T, r, w) ==
    LET before == {q \in TeamRows(T, r.team) : q.date < r.date}
    IN  {q \in before : Cardinality({p \in before : p.date > q.date}) < w}

\* sum of the values F[q] over the records q of S
RECURSIVE SumOver(_, _)
SumOver(S, F) ==
    IF S = {} THEN 0
    ELSE LET q == CHOOSE q \in S : TRUE IN F[q] + SumOver(S \ {q}, F)

\* C7: for every team, window and record r, the *_last_w features aggregate
\* the at most w records of the team immediately preceding r, r excluded,
\* and are 0 on the team's first record.
C7_FormExcludesCurrent ==
    features.done =>
        \A r \in matches : \A w \in window_sizes :
            LET prior == PriorWindow(matches, r, w)
                f == features.rows[r]
            IN  /\ f.points_last[w] = SumOver(prior, [q \in matches |-> Points(q)])
                /\ f.goals_for_last[w] = SumOver(prior, [q \in matches |-> q.goals_for])
                /\ f.goals_against_last[w] =
                      SumOver(prior, [q \in matches |-> q.goals_against])
                /\ f.clean_sheets_last[w] =
                      SumOver(prior, [q \in matches |-> CleanSheet(q)])
                /\ f.failed_to_score_last[w] =
                      SumOver(prior, [q \in matches |-> FailedToScore(q)])
                /\ IF prior = {} THEN f.win_rate_last[w][1] = 0
                   ELSE RatEq(f.win_rate_last[w],
                              <<SumOver(prior, [q \in matches |-> IsWin(q)]),
                                Cardinality(prior)>>)

\* tables that differ from T only in a record of r's team later than r:
\* the later record has another outcome, or is removed
LaterVariants(T, r) ==
    LET later == {q \in TeamRows(T, r.team) : q.date > r.date}
    IN  {(T \ {q}) \cup {MatchRecord(q.team, q.date, o)} : q \in later, o \in Outcomes}
        \cup {T \ {q} : q \in later}

\* C8: the *_rolling values of prepare_model_data at a record depend only on
\* the team's earlier records: a table that differs only in a later record of
\* the team gives the same values at that record.
C8_NoLookahead ==
    prepared.done =>
        \A r \in matches : \A V \in LaterVariants(matches, r) :
            /\ RatEq(prepared.rows[r].gf_rolling, RollingAverages(V, r).gf_rolling)
            /\ RatEq(prepared.rows[r].ga_rolling, RollingAverages(V, r).ga_rolling)

C18_InputUntouched ==
    prepared.done => dfColumns = RawColumns

\* the first record of r's team
IsFirstRecord(T, r) == \A q \in TeamRows(T, r.team) : r.date <= q.date

\* C19: after prepare_model_data and after generate_features no rolling
\* cell is NaN on any row, and each team's first record holds the zero
\* fallback of the form features.
C19_NoNaNRolling ==
    /\ prepared.done =>
          \A r \in matches : /\ ~IsNaN(prepared.rows[r].gf_rolling)
                              /\ ~IsNaN(prepared.rows[r].ga_rolling)
    /\ features.done =>
          \A r \in matches : \A w \in window_sizes :
              /\ ~IsNaN(features.rows[r].win_rate_last[w])
              /\ IsFirstRecord(matches, r) =>
                    /\ features.rows[r].points_last[w] = 0
                    /\ features.rows[r].goals_for_last[w] = 0
                    /\ features.rows[r].goals_against_last[w] = 0
                    /\ features.rows[r].win_rate_last[w][1] = 0

(***************************************************************************)
(* Properties of the ingestion boundary.                                   *)
(***************************************************************************)

\* C20: when the ingested table lacks one of the five core columns date,
\* team, opponent, venue, result, load_data / upload_data reports an error
\* to its caller; it never carries on with defaults or an empty table.
C20_MissingCoreColumnsReported ==
    (/\ ingest.op # "none"
     /\ ingest.exists
     /\ ~(CoreColumns \subseteq ingest.fileCols))
        => ingest.raised

(***************************************************************************)
(* Properties of the betting-odds features.                                *)
(***************************************************************************)

IsFinite(x) == x >= 0

NormalizedSum == odds.normalized[1] + odds.normalized[2] + odds.normalized[3]

SumsToOne ==
    /\ \A i \in 1..3 : IsFinite(odds.normalized[i])
    /\ NormalizedSum - One <= Tolerance
    /\ One - NormalizedSum <= Tolerance

\* C21 (as stated): for any three positive odds the three normalized implied
\* probabilities sum to 1.0 within the tolerance.
C21_AnyPositiveOdds == odds.called => SumsToOne

\* C21 (amended): for three odds that are normal floats (every decimal
\* odds >= 1 is one) the three normalized implied probabilities sum to 1.0
\* within the tolerance.
C21_NormalOddsSumToOne ==
    (odds.called /\ \A i \in 1..3 : odds.odds[i] >= MinNormal) => SumsToOne

\* C21 witness: normal, pairwise different odds whose normalized
\* probabilities were rounded, the sum missing 1.0 by less than the tolerance.
C21_Witness ==
    /\ odds.called
    /\ \A i \in 1..3 : odds.odds[i] >= One
    /\ Cardinality({odds.odds[i] : i \in 1..3}) = 3
    /\ NormalizedSum # One
    /\ SumsToOne

(***************************************************************************)
(* Properties of the head-to-head features.                                *)
(***************************************************************************)

\* C22: every row of the frame returned for a non-empty table carries the
\* head-to-head columns, and a row whose (team, opponent) pair has no
\* computed aggregate holds the defaults: 0.5 for h2h_win_rate and
\* h2h_points_per_game, 0 for h2h_matches and the other columns.
C22_EveryRowCarriesH2H ==
    (h2h.called /\ Len(h2h.table) > 0) =>
        /\ h2h.hasColumns
        /\ \A i \in DOMAIN h2h.table :
              <<h2h.table[i].team, h2h.table[i].opponent>> \notin h2h_pairs(h2h.table)
                  => h2h.rows[i] = h2h_filled

(***************************************************************************)
(* Properties of the schedule features.                                    *)
(***************************************************************************)

\* the team's columns when the fill is the mean of the team's own observed buckets
OwnMeanColumns(T, team) ==
    RestColumns(T, team, RatMeanOf(RestCells(T, {team}), <<0, 1>>, 0))

ObservedBuckets(T, team) == {b \in 1..3 : ~IsNaN(rest_perf(T, team, RestLabels[b]))}

\* C23: for a team without an observation in a rest bucket, the
\* points_*_rest value of that bucket is the mean of the team's own observed
\* buckets, whatever the records of the other teams are.
C23_FillIsOwnMean ==
    sched.called =>
        \A i \in DOMAIN sched.table :
            LET team == sched.table[i].team
                seen == ObservedBuckets(sched.table, team)
            IN  seen # {} =>
                    \A b \in (1..3) \ seen :
                        RatEq(sched.rows[i].rest[b],
                              OwnMeanColumns(sched.table, team)[b])

\* C24: every record with a defined gap d >= 0 falls in exactly one of the
\* buckets short, medium, long, and a gap below 4 days, 0 included, is both a
\* quick turnaround and a short rest.
C24_EveryGapHasABucket ==
    sched.called =>
        \A i \in DOMAIN sched.table :
            LET d == sched.rows[i].days_since_last_match
            IN  (d # NoGap /\ d >= 0) =>
                    /\ sched.rows[i].bucket \in {"short", "medium", "long"}
                    /\ d < 4 => (sched.rows[i].quick_turnaround
                                 /\ sched.rows[i].bucket = "short")

(***************************************************************************)
(* Properties of the weather features.                                     *)
(***************************************************************************)

\* C25: for any table with the three weather columns the feature generation
\* returns normally, however the conditions are distributed over the rows,
\* and a team / condition / venue combination without data has its *_impact
\* left missing instead of 0.
C25_WeatherNeverRaises ==
    weather.called =>
        /\ ~weather.raised
        /\ \A t \in DOMAIN weather.impact, c \in Conditions, v \in Venues :
              (\E b \in BOOLEAN : IsNaN(VenuePerf(weather.table, v, c, t, b)))
                  => IsNaN(weather.impact[t][c][v])

(***************************************************************************)
(* Properties of the database sessions.                                    *)
(***************************************************************************)

\* C26: a registry operation opens at most one database session and has
\* closed it when it returns, normally or by an exception; between two
\* registry calls no session is open.
C26_SessionClosedOnReturn ==
    /\ sess.opened <= 1
    /\ sess.open <= 1
    /\ sess.pc \in {"idle", "returned"} => sess.open = 0

\* C26 witness: a second registry call has opened a session, its try body
\* has raised, and the call has returned with the session closed.
C26_Witness ==
    /\ sess.calls = 2
    /\ sess.pc = "returned"
    /\ sess.opened = 1
    /\ sess.raised
    /\ sess.open = 0

(***************************************************************************)
(* Properties of the training table.                                       *)
(***************************************************************************)

\* C27: every row of the table that train_test_split divides into the
\* training and the test set, the synthetic rows included, has target = 1
\* exactly when its result is 'W'.
C27_TargetMatchesResult ==
    (aug.called /\ ~aug.raised) =>
        \A j \in DOMAIN aug.out : aug.out[j].target = 1 <=> aug.out[j].result = "W"

(***************************************************************************)
(* Properties of the registry across registrations.                        *)
(***************************************************************************)

\* C28: after register_model(m, model_type = t) has returned, whatever was
\* registered before, a load_model(model_type = t) that returns gives m.
C28_LoadGivesLastRegistered ==
    (/\ lastOp.op = "load"
     /\ lastOp.prevRegistered
     /\ lastOp.arg = NoName
     /\ lastOp.model_type = TypeOfModel(lastOp.prevModel)
     /\ ~lastOp.raised)
        => lastOp.loaded = lastOp.prevModel

\* C29: every version_name with a metadata row has a stored artifact file,
\* and a load_model(model_type = t) whose get_latest_version query gave a
\* name returns a model, not None.
C29_RowImpliesArtifact ==
    /\ \A i \in DOMAIN rows : FileExists(ModelPath(rows[i].version_name))
    /\ (/\ lastOp.op = "load"
        /\ lastOp.arg = NoName
        /\ lastOp.model_type # NoType
        /\ ~lastOp.raised
        /\ lastOp.name # NoName)
           => lastOp.loaded # NoModel

\* C29 witness: two rows are persisted, and a load by type resolved the
\* later one through get_latest_version and returned its artifact.
C29_Witness ==
    /\ Len(rows) = 2
    /\ lastOp.op = "load"
    /\ lastOp.arg = NoName
    /\ lastOp.name = rows[2].version_name
    /\ rows[2].creation_date > rows[1].creation_date
    /\ lastOp.loaded # NoModel

(***************************************************************************)
(* Properties of the data refresh.                                         *)
(***************************************************************************)

\* C30: full_data_refresh returns True, and logs the successful completion,
\* only if this call wrote the integrated data to integrated_matches; when
\* the load step fails it returns False.
C30_TrueOnlyIfWritten ==
    refresh.calls > 0 =>
        /\ (refresh.returned \/ refresh.loggedSuccess) =>
              /\ refresh.written
              /\ refresh.integrated_matches = [exists |-> TRUE, rows |-> refresh.n,
                                               by |-> refresh.calls]
        /\ refresh.fault = "load" => ~refresh.returned

====
